---- MODULE Spec2Model ----
(***************************************************************************)
(* Model of the dual-thumbstick input controller                           *)
(* (src/app/thumbstick-controller.js) and of the server code that wires it *)
(* to the WebSocket subscribers (src/unnamed/part_000, lines 373-472).     *)
(*                                                                         *)
(* Units.  Raw channel readings are fractions in [0,1]; they are held here *)
(* in units of 1/Scale (0..Scale), fine enough for a reading to fall       *)
(* exactly on the deadzone and on the threshold.  A normalised axis value  *)
(* is the rational n / NormDen with NormDen = Scale - deadzone; the model  *)
(* stores the numerator n, so every comparison the code makes is made      *)
(* exactly.                                                                *)
(* Time is in milliseconds, as returned by Date.now().                     *)
(*                                                                         *)
(* JavaScript runs one callback at a time: every action below is one       *)
(* callback (or one synchronous call of a public method) run to            *)
(* completion.  The only suspension point inside a method is the await in  *)
(* poll(), which splits a tick into its issuing half (pollBegin) and its   *)
(* completing half (PollComplete).                                         *)
(***************************************************************************)
EXTENDS Integers, Sequences, FiniteSets, TLC

\* ------------------------------------------------------------- bounds
MaxClockSteps == 3      \* how many times the clock advances
MaxChains     == 2      \* poll chains (ticks in flight + pending timers)
MaxRun        == 3      \* length to which a held direction is counted
MaxClients    == 2      \* sockets that ever connect

\* ------------------------------------------------- program constants
Scale         == 400    \* a raw reading of 1.0
deadzone      == 60     \* options.deadzone 0.15, in units of 1/Scale
threshold     == 120    \* options.threshold 0.3, in units of 1/Scale
clickDebounce == 200    \* ms
pollInterval  == 50     \* options.pollInterval, ms

NormDen   == Scale - deadzone
Center    == Scale \div 2
TimeStep  == clickDebounce \div 2
\* Date.now() is milliseconds since 1970: far more than one debounce window.
StartTime == 2 * clickDebounce

Sockets == 1 .. MaxClients

Abs(v) == IF v < 0 THEN -v ELSE v
Min(a, b) == IF a < b THEN a ELSE b
Range(s) == {s[i] : i \in 1 .. Len(s)}

VARIABLES
    \* ---- server (part_000)
    isRaspberryPi,      \* os probe, fixed at startup
    thumbstickController, \* "null" | "created"
    wired,              \* the five listeners of lines 433-451 are installed
    exited,             \* process.exit() was called
    wsClients,          \* the Set, as the sequence of its insertion order
    sock,               \* socket -> "new" | "open" | "broken" | "closing" | "gone"
    \* ---- ThumbstickController fields
    channels,           \* "unset" | "open" | "closed"
    leftButton,         \* "null" | "unwatched" | "watching" | "unexported"
    rightButton,
    pollTimer,          \* "null" | "pending" | "fired"  (what this.pollTimer refers to)
    strayTimers,        \* pending timers this.pollTimer no longer refers to
    inflight,           \* ticks suspended at the await, by what they read
    isRunning,
    state,
    lastLeftClick,
    lastRightClick,
    \* ---- environment
    now,                \* Date.now()
    \* ---- observation of the last step
    lastAction,         \* which callback ran
    emitted,            \* events passed to emit() by it, in order
    bcasts,             \* broadcastToClients calls made by it, in order
    handshake,          \* socket -> the handshake message sent to it, or "none"
    \* ---- history
    held,               \* per stick: direction held, for how many ticks, events emitted
    presses,            \* per button: press callbacks seen, time of the first, clicks emitted
    failedOnce,         \* sockets whose send threw in some broadcast
    lastReads,          \* raw readings of the last tick that read successfully
    stopReturned,       \* stop() has returned and start() was not called since
    releases,           \* per handle: how many times cleanup() released it
    \* ---- configuration
    ctorArg,            \* the options passed to the constructor
    options,            \* this.options
    timerDelay          \* the delay given to the last setTimeout

ctlVars == <<channels, leftButton, rightButton, pollTimer, strayTimers, inflight,
             isRunning, state, lastLeftClick, lastRightClick>>
srvVars == <<isRaspberryPi, thumbstickController, wired, exited, wsClients, sock>>
obsVars == <<lastAction, emitted, bcasts, handshake>>
hisVars == <<held, presses, failedOnce, lastReads, stopReturned>>
cfgVars == <<ctorArg, options>>
vars == <<ctlVars, srvVars, obsVars, hisVars, now, releases, cfgVars, timerDelay>>

\* ------------------------------------------------------ pure functions

\* Mutant: the remaining range is not rescaled (line 164 divides by 1).
applyDeadzoneUnscaled(value) ==
    LET centered == (value - Center) * 2
    IN  IF Abs(centered) < deadzone THEN 0 ELSE centered

\* applyDeadzone (lines 156-166): the numerator of the result over NormDen.
applyDeadzone(value) ==
    LET centered == (value - Center) * 2
    IN  IF Abs(centered) < deadzone
        THEN 0
        ELSE LET sign == IF centered > 0 THEN 1 ELSE -1
             IN  sign * (Abs(centered) - deadzone)

\* |v| < threshold for v = n / NormDen, threshold in units of 1/Scale.
belowThreshold(n) == Abs(n) * Scale < threshold * NormDen

\* Mutant: line 176 tests >=, a tie goes to the x axis.
getDirectionTieX(x, y) ==
    IF belowThreshold(x) /\ belowThreshold(y)
    THEN "none"
    ELSE IF Abs(x) >= Abs(y)
         THEN (IF x > 0 THEN "right" ELSE "left")
         ELSE (IF y > 0 THEN "down" ELSE "up")

\* getDirection (lines 168-181); null is "none".
getDirection(x, y) ==
    IF belowThreshold(x) /\ belowThreshold(y)
    THEN "none"
    ELSE IF Abs(x) > Abs(y)
         THEN (IF x > 0 THEN "right" ELSE "left")
         ELSE (IF y > 0 THEN "down" ELSE "up")

\* An event is the record the listener broadcasts: {type: name, ...data}.
EvLeftClick(z)  == [type |-> "leftClick", zoomMode |-> z]
EvRightClick    == [type |-> "rightClick"]
EvZoom(d)       == [type |-> "zoom", direction |-> d]
EvPan(d)        == [type |-> "pan", direction |-> d]
EvNavigate(d)   == [type |-> "navigate", direction |-> d]

\* Mutant: the zoom-mode branch is missing, the left stick always pans.
leftStickEventsPanOnly(leftDir, st) ==
    IF leftDir # st.lastDirection.left /\ leftDir # "none"
    THEN <<EvPan(leftDir)>>
    ELSE <<>>

\* poll, lines 207-224: what the left stick emits for the direction leftDir.
leftStickEvents(leftDir, st) ==
    IF leftDir # st.lastDirection.left /\ leftDir # "none"
    THEN IF st.left.zoomMode
         THEN IF leftDir = "up" THEN <<EvZoom("in")>>
              ELSE IF leftDir = "down" THEN <<EvZoom("out")>>
              ELSE <<>>
         ELSE <<EvPan(leftDir)>>
    ELSE <<>>

\* poll, lines 226-233.
rightStickEvents(rightDir, st) ==
    IF rightDir # st.lastDirection.right /\ rightDir # "none"
    THEN <<EvNavigate(rightDir)>>
    ELSE <<>>

\* Mutant: lastDirection is assigned inside the test of line 211.
nextLastDirectionSkipNone(dir, last) ==
    IF dir # last /\ dir # "none" THEN dir ELSE last

\* Mutant: the assignment of lastDirection is lost.
nextLastDirectionStale(dir, last) == last

\* poll, lines 207-210 and 227-229: lastDirection is assigned on a change.
nextLastDirection(dir, last) == IF dir # last THEN dir ELSE last

\* Mutant: line 210 is inside the branches that emit, so a suppressed
\* left/right in zoom mode does not update lastDirection.left.
tickStateEmittedOnly(st, r) ==
    LET leftX  == applyDeadzone(r.leftX)
        leftY  == applyDeadzone(r.leftY)
        rightX == applyDeadzone(r.rightX)
        rightY == applyDeadzone(r.rightY)
        leftDir == getDirection(leftX, leftY)
    IN  [st EXCEPT !.left.x = leftX, !.left.y = leftY,
                   !.right.x = rightX, !.right.y = rightY,
                   !.lastDirection.left =
                       IF st.left.zoomMode /\ leftDir \in {"left", "right"}
                       THEN @ ELSE nextLastDirection(leftDir, @),
                   !.lastDirection.right =
                       nextLastDirection(getDirection(rightX, rightY), @)]

\* poll, lines 195-233: the state after a tick whose four reads gave r.
tickState(st, r) ==
    LET leftX  == applyDeadzone(r.leftX)
        leftY  == applyDeadzone(r.leftY)
        rightX == applyDeadzone(r.rightX)
        rightY == applyDeadzone(r.rightY)
    IN  [st EXCEPT !.left.x = leftX, !.left.y = leftY,
                   !.right.x = rightX, !.right.y = rightY,
                   !.lastDirection.left =
                       nextLastDirection(getDirection(leftX, leftY), @),
                   !.lastDirection.right =
                       nextLastDirection(getDirection(rightX, rightY), @)]

tickEvents(st, r) ==
    leftStickEvents(getDirection(applyDeadzone(r.leftX), applyDeadzone(r.leftY)), st)
    \o rightStickEvents(getDirection(applyDeadzone(r.rightX), applyDeadzone(r.rightY)), st)

\* -------------------------------------------------------- broadcasting

readyState(c) == IF sock[c] \in {"open", "broken"} THEN 1 ELSE 2

\* Mutant: the try/catch is around the loop, so a throwing send ends forEach.
deliverAbort(client, acc) ==
    IF readyState(client) = 1
    THEN IF sock[client] = "broken"
         THEN [acc EXCEPT !.failed = @ \union {client}, !.threw = TRUE]
         ELSE [acc EXCEPT !.sends = Append(@, client)]
    ELSE acc

\* broadcastToClients, lines 416-422: the try/catch around one client.
\* A "broken" socket reports OPEN and its send throws; the catch swallows it.
deliver(client, acc) ==
    IF readyState(client) = 1
    THEN IF sock[client] = "broken"
         THEN [acc EXCEPT !.failed = @ \union {client}]
         ELSE [acc EXCEPT !.sends = Append(@, client)]
    ELSE acc

\* wsClients.forEach, line 415.
RECURSIVE forEachClient(_, _, _)
forEachClient(clients, i, acc) ==
    IF i > Len(clients) \/ acc.threw
    THEN acc
    ELSE forEachClient(clients, i + 1, deliver(clients[i], acc))

\* broadcastToClients (lines 413-424): who was registered, who was sent the
\* message (in order), whose send threw, and whether the call itself threw.
broadcastToClients(message) ==
    forEachClient(wsClients, 1,
        [msg |-> message, registered |-> wsClients, sends |-> <<>>,
         failed |-> {}, threw |-> FALSE])

\* emit(): the listeners of lines 433-451, when installed, broadcast each event.
listeners(events) ==
    IF wired THEN [i \in 1 .. Len(events) |-> broadcastToClients(events[i])]
    ELSE <<>>

\* What one callback leaves to observe.
Observe(action, events) ==
    /\ lastAction' = action
    /\ emitted' = events
    /\ bcasts' = listeners(events)
    /\ failedOnce' = failedOnce \union
           UNION {b.failed : b \in Range(listeners(events))}

\* --------------------------------------------------------------- Init

Directions == {"none", "up", "down", "left", "right"}
Sticks == {"left", "right"}
Kinds == {"mock", "hw", "closed"}

NoReads == [leftX |-> Center, leftY |-> Center, rightX |-> Center, rightY |-> Center]

Handles == {"channels", "leftButton", "rightButton"}

\* An option is passed (<<v>>) or left undefined (<<>>).
NoArg == [deadzone |-> <<>>, threshold |-> <<>>, pollInterval |-> <<>>]
\* this.options before the constructor has run.
NoOptions == [deadzone |-> 0, threshold |-> 0, pollInterval |-> 0]

\* Lines 46-50: options.x || default.  undefined and 0 are falsy.
orDefault(arg, default) == IF arg = <<>> \/ arg[1] = 0 THEN default ELSE arg[1]

\* constructor, lines 36-51, for the three options that are numbers with a
\* valid range.  Nothing is validated and nothing is thrown.
constructorOptions(arg) ==
    [deadzone     |-> orDefault(arg.deadzone, deadzone),
     threshold    |-> orDefault(arg.threshold, threshold),
     pollInterval |-> orDefault(arg.pollInterval, pollInterval)]

\* The state after the module's top-level code has run up to line 426, but
\* for the constructor's argument.
InitState ==
    /\ isRaspberryPi \in BOOLEAN
    /\ thumbstickController = "null"
    /\ wired = FALSE
    /\ exited = FALSE
    /\ wsClients = <<>>
    /\ sock = [c \in Sockets |-> "new"]
    /\ channels = "unset"
    /\ leftButton = "null"
    /\ rightButton = "null"
    /\ pollTimer = "null"
    /\ strayTimers = 0
    /\ inflight = [k \in Kinds |-> 0]
    /\ isRunning = FALSE
    /\ state = [left  |-> [x |-> 0, y |-> 0, button |-> FALSE, zoomMode |-> FALSE],
                right |-> [x |-> 0, y |-> 0, button |-> FALSE],
                lastDirection |-> [left |-> "none", right |-> "none"]]
    /\ lastLeftClick = 0
    /\ lastRightClick = 0
    /\ now = StartTime
    /\ lastAction = "boot"
    /\ emitted = <<>>
    /\ bcasts = <<>>
    /\ handshake = [c \in Sockets |-> "none"]
    /\ held = [s \in Sticks |-> [dir |-> "none", ticks |-> 0, events |-> 0,
                                   zoomed |-> FALSE, from |-> "none"]]
    /\ presses = [b \in Sticks |-> [count |-> 0, first |-> 0, clicks |-> 0]]
    /\ failedOnce = {}
    /\ lastReads = NoReads
    /\ stopReturned = FALSE
    /\ releases = [h \in Handles |-> 0]
    /\ options = NoOptions
    /\ timerDelay = 0

\* part_000 line 428: new ThumbstickController(), no options.
Init == InitState /\ ctorArg = NoArg

\* ------------------------------------------------- controller methods

Total(inf) == inf["mock"] + inf["hw"] + inf["closed"]
Chains == Total(inflight) + strayTimers + (IF pollTimer = "pending" THEN 1 ELSE 0)

\* Timers set by setTimeout and not yet fired.
PendingTimers == strayTimers + (IF pollTimer = "pending" THEN 1 ELSE 0)

\* readChannel (lines 139-154) is called on this.channels?.x: what a tick
\* issued now will read from.
readKind(ch) == IF ch = "unset" THEN "mock" ELSE IF ch = "open" THEN "hw" ELSE "closed"

\* poll, lines 184-193: return when not running, else issue the four reads
\* and suspend at the await.
pollBegin(running, ch, inf) ==
    IF running THEN [inf EXCEPT ![readKind(ch)] = @ + 1] ELSE inf

\* stop, lines 250-257, on the timer fields.
stopTimer(t) == "null"

\* cleanup, lines 262-271.
closeChannels(ch) == IF ch = "unset" THEN "unset" ELSE "closed"
unexport(b) == IF b = "null" THEN "null" ELSE "unexported"

\* cleanup, lines 263-271: close() is called on every channel when
\* this.channels is set, unexport() on each button that is set.
released(rel, ch, lb, rb) ==
    [rel EXCEPT !.channels    = IF ch # "unset" THEN Min(@ + 1, 2) ELSE @,
                !.leftButton  = IF lb # "null" THEN Min(@ + 1, 2) ELSE @,
                !.rightButton = IF rb # "null" THEN Min(@ + 1, 2) ELSE @]

\* new ThumbstickController() and init() (lines 33-115), then the callback of
\* lines 430-456.  init() runs to its return without suspending.  outcome:
\*   "ok"        every require, open and new Gpio succeeded;
\*   "noModules" a require (or an open) threw: nothing was assigned;
\*   "noGpio"    the channels were opened and new Gpio (line 95) threw;
\*   "noGpio2"   as "noGpio", at line 96: leftButton is set and not watched.
InitControllerWith(outcomes) ==
    /\ ~exited /\ isRaspberryPi /\ thumbstickController = "null"
    /\ thumbstickController' = "created"
    /\ \E outcome \in outcomes :
        /\ channels' = IF outcome = "noModules" THEN "unset" ELSE "open"
        /\ leftButton' = IF outcome = "ok" THEN "watching"
                         ELSE IF outcome = "noGpio2" THEN "unwatched" ELSE "null"
        /\ rightButton' = IF outcome = "ok" THEN "watching" ELSE "null"
        /\ wired' = (outcome = "ok")
        \* thumbstickController.start(), line 454
        /\ isRunning' = (outcome = "ok")
        /\ inflight' = pollBegin(outcome = "ok", "open", inflight)
    /\ options' = constructorOptions(ctorArg)
    /\ Observe("init", <<>>)
    /\ UNCHANGED <<ctorArg, timerDelay, releases>>
    /\ UNCHANGED <<pollTimer, strayTimers, state, lastLeftClick, lastRightClick,
                   isRaspberryPi, exited, wsClients, sock, handshake,
                   held, presses, lastReads, stopReturned, now>>

\* start, line 244: if (this.isRunning) return.
startAlways(running) == FALSE
startReturns(running) == running

\* start (lines 243-248), called by any holder of the controller.
Start ==
    /\ ~exited /\ thumbstickController = "created"
    /\ IF startReturns(isRunning)
       THEN UNCHANGED <<isRunning, inflight, stopReturned>>
       ELSE /\ Chains < MaxChains
            /\ isRunning' = TRUE
            /\ inflight' = pollBegin(TRUE, channels, inflight)
            /\ stopReturned' = FALSE
    /\ Observe("start", <<>>)
    /\ UNCHANGED <<cfgVars, timerDelay, releases>>
    /\ UNCHANGED <<channels, leftButton, rightButton, pollTimer, strayTimers, state,
                   lastLeftClick, lastRightClick, srvVars, handshake,
                   held, presses, lastReads, now>>

\* stop (lines 250-257).
Stop ==
    /\ ~exited /\ thumbstickController = "created"
    /\ isRunning' = FALSE
    /\ pollTimer' = stopTimer(pollTimer)
    /\ stopReturned' = TRUE
    /\ Observe("stop", <<>>)
    /\ UNCHANGED <<cfgVars, timerDelay, releases>>
    /\ UNCHANGED <<channels, leftButton, rightButton, strayTimers, inflight, state,
                   lastLeftClick, lastRightClick, srvVars, handshake,
                   held, presses, lastReads, now>>

\* cleanup (lines 259-274).
Cleanup ==
    /\ ~exited /\ thumbstickController = "created"
    /\ isRunning' = FALSE
    /\ pollTimer' = stopTimer(pollTimer)
    /\ stopReturned' = TRUE
    /\ channels' = closeChannels(channels)
    /\ leftButton' = unexport(leftButton)
    /\ rightButton' = unexport(rightButton)
    /\ releases' = released(releases, channels, leftButton, rightButton)
    /\ Observe("cleanup", <<>>)
    /\ UNCHANGED <<cfgVars, timerDelay>>
    /\ UNCHANGED <<strayTimers, inflight, state, lastLeftClick, lastRightClick,
                   srvVars, handshake, held, presses, lastReads, now>>

\* The SIGINT / SIGTERM handlers (lines 460-472).
Signal ==
    /\ ~exited
    /\ exited' = TRUE
    /\ IF thumbstickController = "created"
       THEN /\ isRunning' = FALSE
            /\ pollTimer' = stopTimer(pollTimer)
            /\ stopReturned' = TRUE
            /\ channels' = closeChannels(channels)
            /\ leftButton' = unexport(leftButton)
            /\ rightButton' = unexport(rightButton)
            /\ releases' = released(releases, channels, leftButton, rightButton)
       ELSE UNCHANGED <<isRunning, pollTimer, stopReturned, channels, leftButton,
                        rightButton, releases>>
    /\ Observe("signal", <<>>)
    /\ UNCHANGED <<cfgVars, timerDelay>>
    /\ UNCHANGED <<strayTimers, inflight, state, lastLeftClick, lastRightClick,
                   isRaspberryPi, thumbstickController, wired, wsClients, sock,
                   handshake, held, presses, lastReads, now>>

\* The setTimeout callback of line 240 runs poll(): lines 184-193.
TimerFire ==
    /\ ~exited
    /\ \/ /\ pollTimer = "pending"
          /\ pollTimer' = "fired"
          /\ UNCHANGED strayTimers
       \/ /\ strayTimers > 0
          /\ strayTimers' = strayTimers - 1
          /\ UNCHANGED pollTimer
    /\ inflight' = pollBegin(isRunning, channels, inflight)
    /\ Observe("timer", <<>>)
    /\ UNCHANGED <<cfgVars, timerDelay, releases>>
    /\ UNCHANGED <<channels, leftButton, rightButton, isRunning, state,
                   lastLeftClick, lastRightClick, srvVars, handshake,
                   hisVars, now>>

\* ---------------------------------------------------------- poll tick

\* Mutant: an absent channel resolves to full scale instead of the centre.
mockReadingFull == Scale

\* readChannel, line 142: what an absent channel resolves to.
mockReading == Center

\* poll, lines 188-193, with no channel present.
MockReads == [leftX |-> mockReading, leftY |-> mockReading,
              rightX |-> mockReading, rightY |-> mockReading]

\* A stick at rest or pushed fully one way, as its two raw readings.
StickPositions == {<<Center, Center>>, <<Center, 0>>, <<Center, Scale>>,
                   <<0, Center>>, <<Scale, Center>>}
AllReads == {[leftX |-> l[1], leftY |-> l[2], rightX |-> r[1], rightY |-> r[2]] :
                l \in StickPositions, r \in StickPositions}

CountOf(events, types) == Len(SelectSeq(events, LAMBDA e : e.type \in types))

\* History of a stick over the ticks that read successfully: the direction
\* the readings classify to and, while that is not none, for how many ticks
\* in a row, the events emitted for the stick over those ticks, and zoomMode
\* at the first of them.  from (kept for the left stick): at rest, the
\* direction held before the rest; at the first tick of a hold, that same
\* direction when the stick has come back to it through a rest; none
\* otherwise.
AtRestFrom(d) == [dir |-> "none", ticks |-> 0, events |-> 0, zoomed |-> FALSE, from |-> d]
AtRest == AtRestFrom("none")

heldAfter(h, dir, n, zoom) ==
    IF dir # h.dir
    THEN IF dir = "none" /\ n = 0
         THEN AtRestFrom(h.dir)
         ELSE [dir |-> dir, ticks |-> 1, events |-> n, zoomed |-> zoom,
               from |-> IF h.dir = "none" /\ h.from = dir THEN dir ELSE "none"]
    ELSE [h EXCEPT !.ticks = IF dir = "none" /\ n = 0 THEN 0 ELSE Min(@ + 1, MaxRun),
                   !.events = Min(@ + n, MaxRun + 1),
                   !.from = IF dir = "none" THEN @ ELSE "none"]

\* Mutant: the try/catch is missing, a failed read leaves poll() before line 240.
rescheduledUnlessFailed(failed, t) == IF failed THEN t ELSE "pending"

\* poll, lines 235-240: after the try/catch, whether the reads failed or
\* not, this.pollTimer = setTimeout(...).  The timer the field referred to,
\* if still pending, stays pending.
rescheduled(failed, t) == "pending"

schedule(failed) ==
    /\ pollTimer' = rescheduled(failed, pollTimer)
    /\ strayTimers' = strayTimers + (IF pollTimer = "pending" THEN 1 ELSE 0)
    /\ timerDelay' = options.pollInterval

\* The rest of poll() after the await (lines 193-241), for a tick whose reads
\* were issued on channels of kind k, with readings drawn from R.  Reads of
\* absent channels resolve to 0.5; a read of an open channel resolves to a
\* value or rejects; a read of a closed channel rejects.
PollCompleteWith(R) ==
    /\ ~exited
    /\ \E k \in Kinds :
        /\ inflight[k] > 0
        /\ inflight' = [inflight EXCEPT ![k] = @ - 1]
        /\ \/ \E r \in (IF k = "mock" THEN {MockReads} ELSE IF k = "hw" THEN R ELSE {}) :
                LET events == tickEvents(state, r)
                    leftDir == getDirection(applyDeadzone(r.leftX), applyDeadzone(r.leftY))
                    rightDir == getDirection(applyDeadzone(r.rightX), applyDeadzone(r.rightY))
                IN  /\ state' = tickState(state, r)
                    /\ Observe("pollOk", events)
                    /\ lastReads' = r
                    /\ held' = [left |-> heldAfter(held.left, leftDir,
                                             CountOf(events, {"pan", "zoom"}),
                                             state.left.zoomMode),
                                right |-> [heldAfter(held.right, rightDir,
                                             CountOf(events, {"navigate"}), FALSE)
                                           EXCEPT !.from = "none"]]
                    /\ schedule(FALSE)
           \/ /\ k # "mock"
              /\ Observe("pollError", <<>>)
              /\ UNCHANGED <<state, lastReads, held>>
              /\ schedule(TRUE)
    /\ UNCHANGED <<cfgVars, releases>>
    /\ UNCHANGED <<channels, leftButton, rightButton, isRunning,
                   lastLeftClick, lastRightClick, srvVars, handshake,
                   presses, stopReturned, now>>

\* ------------------------------------------------------------ buttons

\* Mutant: the test does not look at pressed.
debounceAnyEdge(pressed, t, last) == (t - last) > clickDebounce

\* Mutant: no debounce.
debounceAlways(pressed, t, last) == pressed

\* The debounce test of lines 119 and 131.
debounceAccepts(pressed, t, last) == pressed /\ (t - last) > clickDebounce

\* History of a button: its first two press callbacks (how many, when the
\* first came, how many clicks they emitted); not followed after the second.
Untracked == [count |-> 3, first |-> 0, clicks |-> 0]

pressesAfter(p, pressed, accepted) ==
    IF pressed
    THEN IF p.count >= 2
         THEN Untracked
         ELSE [count |-> p.count + 1,
               first |-> IF p.count = 0 THEN now ELSE p.first,
               clicks |-> p.clicks + (IF accepted THEN 1 ELSE 0)]
    ELSE p

\* handleLeftButton (lines 117-127), called by the watcher of line 99.
LeftButtonEdge ==
    /\ ~exited /\ leftButton = "watching"
    /\ \E pressed \in BOOLEAN :
        LET accepted == debounceAccepts(pressed, now, lastLeftClick)
            zoom == IF accepted THEN ~state.left.zoomMode ELSE state.left.zoomMode
        IN  /\ lastLeftClick' = IF accepted THEN now ELSE lastLeftClick
            /\ state' = [state EXCEPT !.left.zoomMode = zoom, !.left.button = pressed]
            /\ Observe(IF pressed THEN "leftPress" ELSE "leftRelease",
                       IF accepted THEN <<EvLeftClick(zoom)>> ELSE <<>>)
            /\ presses' = [presses EXCEPT !.left = pressesAfter(@, pressed, accepted)]
    /\ UNCHANGED <<cfgVars, timerDelay, releases>>
    /\ UNCHANGED <<channels, leftButton, rightButton, pollTimer, strayTimers, inflight,
                   isRunning, lastRightClick, srvVars, handshake,
                   held, lastReads, stopReturned, now>>

\* handleRightButton (lines 129-137), called by the watcher of line 104.
RightButtonEdge ==
    /\ ~exited /\ rightButton = "watching"
    /\ \E pressed \in BOOLEAN :
        LET accepted == debounceAccepts(pressed, now, lastRightClick)
        IN  /\ lastRightClick' = IF accepted THEN now ELSE lastRightClick
            /\ state' = [state EXCEPT !.right.button = pressed]
            /\ Observe(IF pressed THEN "rightPress" ELSE "rightRelease",
                       IF accepted THEN <<EvRightClick>> ELSE <<>>)
            /\ presses' = [presses EXCEPT !.right = pressesAfter(@, pressed, accepted)]
    /\ UNCHANGED <<cfgVars, timerDelay, releases>>
    /\ UNCHANGED <<channels, leftButton, rightButton, pollTimer, strayTimers, inflight,
                   isRunning, lastLeftClick, srvVars, handshake,
                   held, lastReads, stopReturned, now>>

\* Time passes.
ClockAdvance ==
    /\ ~exited
    /\ now < StartTime + MaxClockSteps * TimeStep
    /\ now' = now + TimeStep
    /\ lastAction' = "clock"
    /\ UNCHANGED <<cfgVars, timerDelay, releases>>
    /\ emitted' = <<>> /\ bcasts' = <<>>
    /\ UNCHANGED <<ctlVars, srvVars, handshake, hisVars>>

\* ------------------------------------------------------------ sockets

Remove(seq, c) == SelectSeq(seq, LAMBDA x : x # c)

\* The /ws/controls handler (lines 380-409).  Sockets connect in the order
\* of their numbers.  The socket is OPEN, or already closing, when the
\* handler reaches line 406.  Connections arrive after listen (line 475),
\* by when the callback of line 430 has run: init() does not suspend.
Connect ==
    /\ ~exited
    /\ isRaspberryPi => thumbstickController = "created"
    /\ \E c \in Sockets :
        /\ sock[c] = "new"
        /\ \A d \in Sockets : d < c => sock[d] # "new"
        /\ wsClients' = Append(wsClients, c)
        /\ \E open \in BOOLEAN :
            /\ sock' = [sock EXCEPT ![c] = IF open THEN "open" ELSE "closing"]
            /\ handshake' = [handshake EXCEPT ![c] =
                   IF open THEN [type |-> "connected", isRaspberryPi |-> isRaspberryPi]
                   ELSE "none"]
    /\ lastAction' = "connect"
    /\ UNCHANGED <<cfgVars, timerDelay, releases>>
    /\ emitted' = <<>> /\ bcasts' = <<>>
    /\ UNCHANGED <<ctlVars, isRaspberryPi, thumbstickController, wired, exited,
                   hisVars, now>>

\* A registered socket's transport degrades: its send starts to throw, or it
\* leaves the OPEN state.
SocketDegrade ==
    /\ ~exited
    /\ \E c \in Sockets :
        \/ /\ sock[c] = "open"
           /\ sock' = [sock EXCEPT ![c] = "broken"]
        \/ /\ sock[c] \in {"open", "broken"}
           /\ sock' = [sock EXCEPT ![c] = "closing"]
    /\ lastAction' = "degrade"
    /\ UNCHANGED <<cfgVars, timerDelay, releases>>
    /\ emitted' = <<>> /\ bcasts' = <<>>
    /\ UNCHANGED <<ctlVars, isRaspberryPi, thumbstickController, wired, exited,
                   wsClients, handshake, hisVars, now>>

\* socket.on('error') (lines 400-403).  The socket is dead from here on: the
\* 'close' event that follows finds nothing to delete.
SocketError ==
    /\ ~exited
    /\ \E c \in Sockets :
        /\ sock[c] \in {"open", "broken", "closing"}
        /\ sock' = [sock EXCEPT ![c] = "gone"]
        /\ wsClients' = Remove(wsClients, c)
    /\ lastAction' = "socketError"
    /\ UNCHANGED <<cfgVars, timerDelay, releases>>
    /\ emitted' = <<>> /\ bcasts' = <<>>
    /\ UNCHANGED <<ctlVars, isRaspberryPi, thumbstickController, wired, exited,
                   handshake, hisVars, now>>

\* socket.on('close') (lines 395-398).
SocketClose ==
    /\ ~exited
    /\ \E c \in Sockets :
        /\ sock[c] \in {"open", "broken", "closing"}
        /\ sock' = [sock EXCEPT ![c] = "gone"]
        /\ wsClients' = Remove(wsClients, c)
    /\ lastAction' = "socketClose"
    /\ UNCHANGED <<cfgVars, timerDelay, releases>>
    /\ emitted' = <<>> /\ bcasts' = <<>>
    /\ UNCHANGED <<ctlVars, isRaspberryPi, thumbstickController, wired, exited,
                   handshake, hisVars, now>>

\* ------------------------------------------------------ specification

\* Both sticks at rest, or the left stick pushed right.
FewReads == {NoReads, [NoReads EXCEPT !.leftX = Scale]}

InitController == InitControllerWith({"ok", "noModules", "noGpio", "noGpio2"})
InitOk         == InitControllerWith({"ok"})
PollComplete   == PollCompleteWith(AllReads)
PollFew        == PollCompleteWith(FewReads)

\* Every callback, with every input.
Next ==
    \/ InitController
    \/ Start
    \/ Stop
    \/ Cleanup
    \/ Signal
    \/ TimerFire
    \/ PollComplete
    \/ LeftButtonEdge
    \/ RightButtonEdge
    \/ ClockAdvance
    \/ Connect
    \/ SocketDegrade
    \/ SocketError
    \/ SocketClose

Spec == Init /\ [][Next]_vars

\* The specifications below are Spec in a narrower environment: each leaves
\* out callbacks or inputs, so each of its behaviours is a behaviour of Spec.

\* The sticks: a running controller on hardware, every stick position, the
\* left button and the clock (zoom mode toggles both ways).
NextSticks ==
    \/ InitOk
    \/ TimerFire
    \/ PollComplete
    \/ LeftButtonEdge
    \/ ClockAdvance

SpecSticks == Init /\ [][NextSticks]_vars

\* The life cycle: every outcome of init(), start, stop, cleanup, signals,
\* timers and ticks in flight, with both buttons and a few stick positions.
NextLife ==
    \/ InitController
    \/ Start
    \/ Stop
    \/ Cleanup
    \/ Signal
    \/ TimerFire
    \/ PollFew
    \/ LeftButtonEdge
    \/ RightButtonEdge

SpecLife == Init /\ [][NextLife]_vars

\* The buttons: both buttons against the clock, with the poll loop running.
NextButtons ==
    \/ InitOk
    \/ TimerFire
    \/ PollFew
    \/ LeftButtonEdge
    \/ RightButtonEdge
    \/ ClockAdvance

SpecButtons == Init /\ [][NextButtons]_vars

\* The subscribers: sockets connecting, degrading and leaving while the
\* controller emits.
NextBcast ==
    \/ InitController
    \/ TimerFire
    \/ PollFew
    \/ Connect
    \/ SocketDegrade
    \/ SocketError
    \/ SocketClose

SpecBcast == Init /\ [][NextBcast]_vars

\* The loop under the event loop's guarantee that a pending timer fires:
\* start, stop, timers and ticks that succeed or fail.
NextLoop ==
    \/ InitOk
    \/ Start
    \/ Stop
    \/ TimerFire
    \/ PollFew

SpecLoop == Init /\ [][NextLoop]_vars /\ WF_vars(TimerFire)

\* Options a caller can pass: each fraction undefined, 0, 1.5 or -0.15, the
\* interval undefined, 0 or -50 ms.
FractionArgs == {<<>>, <<0>>, <<Scale + Center>>, <<0 - deadzone>>}
IntervalArgs == {<<>>, <<0>>, <<0 - pollInterval>>}
ConfigArgs ==
    [deadzone : FractionArgs, threshold : FractionArgs, pollInterval : IntervalArgs]

\* A controller constructed with any of these options, then driven through
\* its methods; no read resolves.
InitConfig == InitState /\ ctorArg \in ConfigArgs
NextConfig ==
    \/ InitController
    \/ Start
    \/ Stop
    \/ Cleanup
SpecConfig == InitConfig /\ [][NextConfig]_vars

\* Every raw reading of the left stick's x channel, the rest at the centre.
GridReads == {[NoReads EXCEPT !.leftX = v] : v \in 0 .. Scale}
PollGrid == PollCompleteWith(GridReads)

\* One axis: a running controller whose ticks read every value of the grid.
NextGrid ==
    \/ InitOk
    \/ TimerFire
    \/ PollGrid

SpecGrid == Init /\ [][NextGrid]_vars

\* Readings of one channel at the ends, the centre, each side of the
\* deadzone (|centered| = deadzone at Center +- deadzone / 2) and of the
\* threshold (normalised value 0.3 at ThresholdRaw), and in between.
ThresholdRaw == Center + (deadzone + (threshold * NormDen) \div Scale) \div 2
AxisValues ==
    {0, Scale, Center, Center - deadzone \div 2, Center + deadzone \div 2,
     ThresholdRaw, ThresholdRaw - 1, Scale - ThresholdRaw, Scale - ThresholdRaw + 1,
     Center + Center \div 2, Center - Center \div 2}
PairReads == {[NoReads EXCEPT !.leftX = x, !.leftY = y] : x, y \in AxisValues}
PollPairs == PollCompleteWith(PairReads)

\* Two axes of one stick: a running controller whose ticks read every pair
\* of these values on the left stick.
NextClassify ==
    \/ InitOk
    \/ TimerFire
    \/ PollPairs

SpecClassify == Init /\ [][NextClassify]_vars

\* ------------------------------------------------------------- claims

leftDirOf(r)  == getDirection(applyDeadzone(r.leftX), applyDeadzone(r.leftY))
rightDirOf(r) == getDirection(applyDeadzone(r.rightX), applyDeadzone(r.rightY))
Occurrences(seq, x) == Cardinality({i \in 1 .. Len(seq) : seq[i] = x})

\* C1 (as stated): a stick held in one non-none direction over N >= 1
\* consecutive ticks that read successfully has emitted exactly one event
\* over those ticks.
C1_ExactlyOnePerHold ==
    \A s \in Sticks : held[s].dir # "none" => held[s].events = 1

\* C1 (amended): a stick held in one non-none direction over N >= 1
\* consecutive ticks has emitted exactly one event over those ticks, except
\* the left stick held left or right from a tick at which zoomMode was true,
\* which has emitted none.
C1_EdgeTriggered ==
    \A s \in Sticks :
        held[s].dir # "none" =>
            held[s].events =
                IF s = "left" /\ held[s].zoomed /\ held[s].dir \in {"left", "right"}
                THEN 0 ELSE 1

C1_Witness ==
    /\ held.left.dir = "up" /\ held.left.ticks >= 3 /\ held.left.events = 1
    /\ held.right.dir = "right" /\ held.right.ticks >= 2 /\ held.right.events = 1

\* C2: a tick that completes after stop() has returned (and before any new
\* start()) emits no event.
C2_NoEventAfterStop ==
    (lastAction = "pollOk" /\ stopReturned) => emitted = <<>>

\* C3: from a fresh controller, when the second press callback of a button
\* arrives less than clickDebounce after the first, exactly one click has
\* been emitted for that button and, for the left button, zoomMode has
\* toggled exactly once (it is true).
C3_DebounceFresh ==
    \A b \in Sticks :
        (presses[b].count = 2 /\ now - presses[b].first < clickDebounce) =>
            /\ presses[b].clicks = 1
            /\ (b = "left" => state.left.zoomMode)

C3_Witness ==
    /\ lastAction = "leftPress" /\ emitted = <<>>
    /\ presses.left.count = 2 /\ now = presses.left.first + TimeStep
    /\ presses.left.clicks = 1

\* C4: a press callback arriving when now - lastAccepted >= clickDebounce is
\* accepted and emits the button's click event.
C4_BoundaryAccepted ==
    [][ /\ (lastAction' = "leftPress" /\ now - lastLeftClick >= clickDebounce)
            => emitted' = <<EvLeftClick(~state.left.zoomMode)>>
        /\ (lastAction' = "rightPress" /\ now - lastRightClick >= clickDebounce)
            => emitted' = <<EvRightClick>> ]_vars

\* C5: a subscriber whose send threw during a broadcast is no longer in the
\* registry.
C5_FailedDropped == failedOnce \cap Range(wsClients) = {}

\* C6: in every broadcast, the call does not throw and each registered
\* subscriber that is open and whose send does not throw is sent the message
\* exactly once, whatever other sends throw; nobody else is sent it.
C6_DeliveryContinues ==
    \A i \in 1 .. Len(bcasts) :
        LET b == bcasts[i]
        IN  /\ ~b.threw
            /\ \A c \in Sockets :
                  Occurrences(b.sends, c) =
                      IF c \in Range(b.registered) /\ sock[c] = "open" THEN 1 ELSE 0

\* A send threw for a subscriber registered before one that was still sent
\* the message.
C6_Witness ==
    \E i \in 1 .. Len(bcasts) :
        LET b == bcasts[i]
        IN  \E j, k \in 1 .. Len(b.registered) :
                /\ j < k
                /\ b.registered[j] \in b.failed
                /\ b.sends = <<b.registered[k]>>

\* C7: on a tick, a changed left direction emits zoom(in) for up and
\* zoom(out) for down and nothing for left or right when zoomMode is true,
\* and pan(direction) when zoomMode is false; a changed right direction
\* emits navigate(direction) whatever zoomMode is; nothing else is emitted.
C7_Expected(st, r) ==
    LET l == leftDirOf(r)
        n == rightDirOf(r)
        leftPart ==
            IF l = st.lastDirection.left \/ l = "none" THEN <<>>
            ELSE IF ~st.left.zoomMode THEN <<[type |-> "pan", direction |-> l]>>
            ELSE IF l = "up" THEN <<[type |-> "zoom", direction |-> "in"]>>
            ELSE IF l = "down" THEN <<[type |-> "zoom", direction |-> "out"]>>
            ELSE <<>>
        rightPart ==
            IF n = st.lastDirection.right \/ n = "none" THEN <<>>
            ELSE <<[type |-> "navigate", direction |-> n]>>
    IN  leftPart \o rightPart

C7_ZoomRouting ==
    [][lastAction' = "pollOk" => emitted' = C7_Expected(state, lastReads')]_vars

C7_Witness ==
    /\ lastAction = "pollOk" /\ state.left.zoomMode
    /\ emitted = <<EvZoom("out"), EvNavigate("left")>>

\* C8: zoomMode changes only in a left-button press callback that is not
\* inside the debounce window; that step flips it once and emits leftClick
\* carrying the new value; every emitted leftClick comes with a flip.
C8_ZoomModeFrame ==
    [][ /\ (state'.left.zoomMode # state.left.zoomMode) =>
              /\ lastAction' = "leftPress"
              /\ ~(now - lastLeftClick < clickDebounce)
              /\ emitted' = <<[type |-> "leftClick", zoomMode |-> state'.left.zoomMode]>>
        /\ (lastAction' = "leftPress" /\ emitted' # <<>>) =>
              state'.left.zoomMode = ~state.left.zoomMode ]_vars

\* The second accepted left click, flipping zoomMode back to false.
C8_Witness ==
    /\ lastAction = "leftPress" /\ emitted = <<EvLeftClick(FALSE)>>
    /\ ~state.left.zoomMode /\ lastLeftClick = now

\* C9: a tick whose reads fail emits and broadcasts nothing, leaves the
\* stick values and lastDirection as they were, and sets a new timer.
C9_FailedTick ==
    [][lastAction' = "pollError" =>
          /\ emitted' = <<>> /\ bcasts' = <<>>
          /\ state' = state
          /\ pollTimer' = "pending"
          /\ Chains' = Chains ]_vars

C9_Witness ==
    /\ lastAction = "pollError" /\ pollTimer = "pending"
    /\ state.left.x # 0 /\ state.lastDirection.left = "right"

\* C10: with no channel opened (and so no button watcher), every tick reads
\* the centre on all four channels, leaves both directions none, and no
\* event is emitted or broadcast.
C10_MockSilent ==
    channels = "unset" =>
        /\ emitted = <<>> /\ bcasts = <<>>
        /\ lastReads = NoReads
        /\ state.lastDirection = [left |-> "none", right |-> "none"]
        /\ state.left.x = 0 /\ state.left.y = 0 /\ state.right.x = 0 /\ state.right.y = 0
        /\ leftButton = "null" /\ rightButton = "null"

\* A second tick has completed in mock mode while the timer set by the
\* first was pending.
C10_Witness ==
    /\ channels = "unset" /\ thumbstickController = "created"
    /\ lastAction = "pollOk" /\ strayTimers >= 1

\* init() returned false: the controller exists and the listeners of lines
\* 433-451 were not wired.
initFailed == thumbstickController = "created" /\ ~wired

\* C11: once init() has returned false, no tick reads a hardware channel:
\* every tick in flight reads the mock centre and the last completed tick
\* read the centre on all four channels.
C11_PermanentMock ==
    initFailed =>
        /\ inflight["hw"] = 0 /\ inflight["closed"] = 0
        /\ lastReads = NoReads

\* The configuration the claim calls valid: fractions in [0, 1], interval
\* positive; an option left undefined takes its default.
validFraction(arg) == arg = <<>> \/ (arg[1] >= 0 /\ arg[1] <= Scale)
validInterval(arg) == arg = <<>> \/ arg[1] > 0
validConfig(arg) ==
    /\ validFraction(arg.deadzone) /\ validFraction(arg.threshold)
    /\ validInterval(arg.pollInterval)

\* C12: a controller exists, and runs, only if the options it was
\* constructed with are valid.
C12_InvalidRejected ==
    (thumbstickController = "created" \/ isRunning) => validConfig(ctorArg)

\* C13: start() on a running controller changes nothing of the controller
\* and begins no tick; start() on an idle controller sets isRunning and
\* begins exactly one tick, whose reads are issued before start() returns.
C13_StartOnce ==
    [][lastAction' = "start" =>
          IF isRunning
          THEN UNCHANGED ctlVars /\ Chains' = Chains
          ELSE /\ isRunning'
               /\ inflight' = [inflight EXCEPT ![readKind(channels)] = @ + 1]
               /\ UNCHANGED <<pollTimer, strayTimers, state>> ]_vars

\* start() has been called on a controller that was running with a timer
\* pending and no tick in flight.
C13_Witness ==
    /\ lastAction = "start" /\ isRunning
    /\ Total(inflight) = 0 /\ pollTimer = "pending"

\* C14: once stop() has returned and until start() is called, no timer
\* firing begins a tick, and a further stop() changes nothing of the
\* controller.
C14_StopIdempotent ==
    [][ /\ (stopReturned /\ lastAction' = "timer" => inflight' = inflight)
        /\ (stopReturned /\ lastAction' = "stop" => UNCHANGED ctlVars) ]_vars

\* C15: no handle is released twice and no tick reads a handle that
\* cleanup() has released.
C15_ReleasedOnce ==
    /\ \A h \in Handles : releases[h] <= 1
    /\ inflight["closed"] = 0

\* Hardware-backed input is active: init() returned true, the listeners are
\* wired and the channels have not been closed.
hardwareActive == wired /\ channels = "open"

\* C16: a subscriber whose socket is open when it connects is sent one
\* message of type "connected", and the flag the message carries is true
\* exactly when hardware-backed input is active.
C16_Handshake ==
    [][lastAction' = "connect" =>
          \A c \in Sockets :
              (sock[c] = "new" /\ sock'[c] = "open") =>
                  /\ handshake'[c].type = "connected"
                  /\ handshake'[c].isRaspberryPi = hardwareActive' ]_vars

\* C17: at most one tick is between issuing its reads and completing, and at
\* most one timer is pending.
C17_NoOverlap == Total(inflight) <= 1 /\ PendingTimers <= 1

\* C18: every timer is set with the poll interval as its delay, and a tick
\* that completes, successfully or not, on a running controller is followed
\* by a timer firing that begins the next tick, unless the controller is
\* stopped first.
C18_KeepsRunning ==
    /\ [](PendingTimers > 0 => timerDelay = pollInterval)
    /\ ((lastAction \in {"pollOk", "pollError"} /\ isRunning)
           ~> ((lastAction = "timer" /\ Total(inflight) > 0) \/ ~isRunning))

\* The timer set by a completed tick has fired and begun the next tick.
C18_Witness ==
    /\ lastAction = "timer" /\ isRunning
    /\ pollTimer = "fired" /\ Total(inflight) = 1
    /\ timerDelay = pollInterval

\* The events of one stick among those of a tick.
leftEvents(events)  == SelectSeq(events, LAMBDA e : e.type \in {"pan", "zoom"})
rightEvents(events) == SelectSeq(events, LAMBDA e : e.type = "navigate")

\* After a tick that read successfully, both lastDirection fields are the
\* directions its readings classify to, and a stick that classifies to none
\* has emitted nothing.
lastDirectionFresh ==
    /\ state'.lastDirection.left = leftDirOf(lastReads')
    /\ state'.lastDirection.right = rightDirOf(lastReads')
    /\ (leftDirOf(lastReads') = "none" => leftEvents(emitted') = <<>>)
    /\ (rightDirOf(lastReads') = "none" => rightEvents(emitted') = <<>>)

\* C19 (as stated): after every tick that read successfully lastDirection
\* is the classified direction of each stick, a stick classified to none
\* emits nothing, and a stick that comes back through none to the direction
\* it had before (the left stick), or leaves none for a direction (the right
\* stick), emits an event on that tick.
C19_ReturnEmits ==
    [][lastAction' = "pollOk" =>
          /\ lastDirectionFresh
          /\ (held'.left.dir # "none" /\ held'.left.from = held'.left.dir
                 => leftEvents(emitted') # <<>>)
          /\ (state.lastDirection.right = "none" /\ rightDirOf(lastReads') # "none"
                 => rightEvents(emitted') # <<>>) ]_vars

\* C19 (amended): as above for every direction taken from none, except
\* that the left stick leaving none for left or right while zoomMode is
\* true emits nothing.
C19_LastDirection ==
    [][lastAction' = "pollOk" =>
          /\ lastDirectionFresh
          /\ (state.lastDirection.left = "none" /\ leftDirOf(lastReads') # "none"
                 => (leftEvents(emitted') = <<>>
                       <=> (state.left.zoomMode
                              /\ leftDirOf(lastReads') \in {"left", "right"})))
          /\ (state.lastDirection.right = "none" /\ rightDirOf(lastReads') # "none"
                 => rightEvents(emitted') = <<EvNavigate(rightDirOf(lastReads'))>>) ]_vars

\* The left stick has come back to up through a rest and the tick has
\* emitted pan(up); the right stick classifies to none.
C19_Witness ==
    /\ lastAction = "pollOk"
    /\ held.left.dir = "up" /\ held.left.from = "up" /\ held.left.ticks = 1
    /\ state.lastDirection = [left |-> "up", right |-> "none"]
    /\ emitted = <<EvPan("up")>>

\* C20: a release callback of either button emits nothing and leaves both
\* timestamps and zoomMode as they were; a callback of one button leaves
\* the other button's timestamp as it was (and a right-button callback
\* leaves zoomMode); and a press arriving more than clickDebounce after its
\* own button's last accepted click is accepted, whatever the other
\* button's timestamp is.
C20_ReleaseAndIndependence ==
    [][ /\ lastAction' \in {"leftRelease", "rightRelease"} =>
              /\ emitted' = <<>> /\ bcasts' = <<>>
              /\ UNCHANGED <<lastLeftClick, lastRightClick>>
              /\ state'.left.zoomMode = state.left.zoomMode
        /\ lastAction' \in {"leftPress", "leftRelease"} =>
              lastRightClick' = lastRightClick
        /\ lastAction' \in {"rightPress", "rightRelease"} =>
              /\ lastLeftClick' = lastLeftClick
              /\ state'.left.zoomMode = state.left.zoomMode
        /\ (lastAction' = "leftPress" /\ now - lastLeftClick > clickDebounce) =>
              emitted' = <<EvLeftClick(~state.left.zoomMode)>>
        /\ (lastAction' = "rightPress" /\ now - lastRightClick > clickDebounce) =>
              emitted' = <<EvRightClick>> ]_vars

\* A right click accepted at the instant a left click was accepted.
C20_Witness ==
    /\ lastAction = "rightPress" /\ emitted = <<EvRightClick>>
    /\ lastLeftClick = now /\ lastRightClick = now /\ state.left.zoomMode

\* C21: the direction stored by a tick for the left stick is none exactly
\* when both normalised axes are below the threshold in magnitude;
\* otherwise it is left or right exactly when |x| > |y|, with right for
\* positive x, and else (a tie included) up or down, with down for
\* positive y.
C21_Classify ==
    [][lastAction' = "pollOk" =>
          LET x == state'.left.x
              y == state'.left.y
              d == state'.lastDirection.left
              small == Abs(x) * Scale < threshold * NormDen
                          /\ Abs(y) * Scale < threshold * NormDen
          IN  /\ (d = "none") <=> small
              /\ ~small =>
                    /\ (d \in {"left", "right"}) <=> (Abs(x) > Abs(y))
                    /\ (d = "right" => x > 0) /\ (d = "left" => x < 0)
                    /\ (d = "down" => y > 0) /\ (d = "up" => y < 0)
                    /\ (Abs(x) = Abs(y) => d \in {"up", "down"}) ]_vars

\* A tick has read both axes of the left stick exactly at the threshold, a
\* tie, and stored and emitted down.
C21_Witness ==
    /\ lastAction = "pollOk"
    /\ lastReads.leftX = ThresholdRaw /\ lastReads.leftY = ThresholdRaw
    /\ state.left.x = state.left.y /\ state.left.x * Scale = threshold * NormDen
    /\ state.lastDirection.left = "down" /\ emitted = <<EvPan("down")>>

\* C22: the value a tick stores for a reading r is at most 1 in magnitude,
\* is 0 when |centered| <= deadzone (the centre and the boundary included),
\* is +1 at r = 1 and -1 at r = 0, and is not less than the value stored
\* for any smaller reading.
C22_Normalize ==
    [][lastAction' = "pollOk" =>
          LET r == lastReads'.leftX
              out == state'.left.x
          IN  /\ Abs(out) <= NormDen
              /\ (r = Center => out = 0)
              /\ (Abs(2 * (r - Center)) <= deadzone => out = 0)
              /\ (r = Scale => out = NormDen)
              /\ (r = 0 => out = 0 - NormDen)
              /\ (lastReads.leftX <= r => state.left.x <= out)
              /\ (lastReads.leftX >= r => state.left.x >= out) ]_vars

\* A tick has read exactly the deadzone boundary, the stick coming to rest
\* from a reading that classified right.
C22_Witness ==
    /\ lastAction = "pollOk"
    /\ 2 * (lastReads.leftX - Center) = deadzone /\ state.left.x = 0
    /\ held.left.from = "right"

\* C23: a tick stores the left stick's classified direction whatever
\* zoomMode is, and a tick whose readings classify the left stick to the
\* direction of the previous tick that read successfully emits no pan and
\* no zoom, whether or not zoomMode was toggled in between; a left-button
\* callback emits no pan and no zoom either.
C23_ZoomIndependent ==
    [][ /\ lastAction' = "pollOk" =>
              /\ state'.lastDirection.left = leftDirOf(lastReads')
              /\ (leftDirOf(lastReads') = held.left.dir => leftEvents(emitted') = <<>>)
        /\ lastAction' \in {"leftPress", "leftRelease"} =>
              /\ leftEvents(emitted') = <<>>
              /\ state'.lastDirection = state.lastDirection ]_vars

\* The left stick has been held left since a tick at which zoomMode was
\* true, zoomMode has since been toggled off, and a further tick has
\* emitted nothing: no event at all has been emitted for the hold.
C23_Witness ==
    /\ lastAction = "pollOk" /\ emitted = <<>>
    /\ held.left.dir = "left" /\ held.left.zoomed /\ held.left.ticks >= 2
    /\ held.left.events = 0
    /\ ~state.left.zoomMode /\ state.lastDirection.left = "left"

====
